---- MODULE Spec2Model ----
(***************************************************************************)
(* Model of the command processor of the container startup system          *)
(* (gp_startup/gp_cmdproc.py): argument definitions, the handler registry, *)
(* the exception handlers and CommandProcessor.process.                    *)
(*                                                                         *)
(* A Python str is a sequence of one-character strings, so that strip(),   *)
(* lower(), startswith(), split() and join() are computed character by     *)
(* character.  The only whitespace character of the alphabet is " ".       *)
(***************************************************************************)
EXTENDS Integers, Sequences, FiniteSets, TLC

\* ------------------------------------------------------------------------
\* Bounds of the model
\* ------------------------------------------------------------------------

\* largest number of tokens of an invocation, where the selection of a
\* handler is exercised
MaxArgs == 2

\* largest number of tokens of an invocation, where the named arguments are
\* exercised
MaxNamedArgs == 3

\* largest number of registrations in the handler registry
MaxRegs == 2

\* largest min_occurrence and max_occurrence passed to NamedArgument(...)
MaxOccurrence == 2

\* largest number of command processors AppImpl.run calls
MaxProcessors == 3

\* largest number of registered exception handlers
MaxRoutes == 2

\* ------------------------------------------------------------------------
\* str methods
\* ------------------------------------------------------------------------

\* str.lower() on one character (the alphabet's upper-case letters)
LowerChar(c) ==
    CASE c = "R" -> "r"
      [] c = "U" -> "u"
      [] c = "N" -> "n"
      [] c = "K" -> "k"
      [] c = "X" -> "x"
      [] c = "A" -> "a"
      [] c = "E" -> "e"
      [] OTHER   -> c

\* str.lower()
Lower(s) == [i \in 1..Len(s) |-> LowerChar(s[i])]

IsSpace(c) == c = " "

RECURSIVE LStrip(_)
\* str.lstrip()
LStrip(s) ==
    IF s # <<>> /\ IsSpace(Head(s)) THEN LStrip(Tail(s)) ELSE s

RECURSIVE RStrip(_)
\* str.rstrip()
RStrip(s) ==
    IF s # <<>> /\ IsSpace(s[Len(s)]) THEN RStrip(SubSeq(s, 1, Len(s) - 1)) ELSE s

\* str.strip()
Strip(s) == RStrip(LStrip(s))

\* str.startswith("--")
StartsWithMarker(s) == Len(s) >= 2 /\ s[1] = "-" /\ s[2] = "-"

RECURSIVE SplitFrom(_, _, _)
\* str.split(sep), a one-character separator: cur is the piece being read
SplitFrom(s, sep, cur) ==
    IF s = <<>> THEN <<cur>>
    ELSE IF Head(s) = sep THEN <<cur>> \o SplitFrom(Tail(s), sep, <<>>)
    ELSE SplitFrom(Tail(s), sep, Append(cur, Head(s)))

\* str.split(sep): "" splits into [""]
Split(s, sep) == SplitFrom(s, sep, <<>>)

RECURSIVE Join(_, _)
\* sep.join(parts)
Join(parts, sep) ==
    IF parts = <<>> THEN <<>>
    ELSE IF Len(parts) = 1 THEN parts[1]
    ELSE parts[1] \o <<sep>> \o Join(Tail(parts), sep)

\* ------------------------------------------------------------------------
\* Python values, exit codes, outcomes of a call
\* ------------------------------------------------------------------------

EXIT_CODE_COMMAND_LINE_ARGUMENT_ERROR == 2
EXIT_CODE_FILE_NOT_FOUND == 3
EXIT_CODE_IO_ERROR == 4

\* a Python value: type(value) and, for an int, the number
PyInt(n) == [type |-> "int", v |-> n]
PyNone   == [type |-> "NoneType", v |-> 0]
PyStr    == [type |-> "str", v |-> 0]

\* how a call ends: it returns a value, or an exception leaves it
Returns(value) == [kind |-> "return", value |-> value, exc |-> "-"]
Raises(exc)    == [kind |-> "raise", value |-> PyNone, exc |-> exc]
NoCall         == [kind |-> "-", value |-> PyNone, exc |-> "-"]

\* ------------------------------------------------------------------------
\* Argument definitions
\* ------------------------------------------------------------------------

\* PositionalArgument(name)
PositionalArgument(name) == [class |-> "PositionalArgument", name |-> name]

\* mutant of NamedArgument: from_stdin is not checked against
\* max_occurrence
NamedArgument_any_stdin(name, from_stdin, min_occurrence, max_occurrence) ==
    IF min_occurrence > max_occurrence THEN [class |-> "ValueError"]
    ELSE [class          |-> "NamedArgument",
          name           |-> name,
          from_stdin     |-> from_stdin,
          min_occurrence |-> min_occurrence,
          max_occurrence |-> max_occurrence]

\* NamedArgument(name, from_stdin, min_occurrence, max_occurrence): the
\* object, or the exception the constructor raises
NamedArgument(name, from_stdin, min_occurrence, max_occurrence) ==
    IF min_occurrence > max_occurrence THEN [class |-> "ValueError"]
    ELSE IF from_stdin /\ max_occurrence > 1 THEN [class |-> "ValueError"]
    ELSE [class          |-> "NamedArgument",
          name           |-> name,
          from_stdin     |-> from_stdin,
          min_occurrence |-> min_occurrence,
          max_occurrence |-> max_occurrence]

\* ------------------------------------------------------------------------
\* CommandProcessor.process, step by step
\* ------------------------------------------------------------------------

\* mutant of AppendNamed: the value is put in front of the values of the key
AppendNamed_prepends(named, key, value) ==
    IF \E i \in 1..Len(named) : named[i].key = key
    THEN [i \in 1..Len(named) |->
             IF named[i].key = key
             THEN [named[i] EXCEPT !.values = <<value>> \o @]
             ELSE named[i]]
    ELSE Append(named, [key |-> key, values |-> <<value>>])

\* specified_named_arguments[key].append(value), creating the entry first
\* when the key is new; the dict is a sequence of entries in insertion order
AppendNamed(named, key, value) ==
    IF \E i \in 1..Len(named) : named[i].key = key
    THEN [i \in 1..Len(named) |->
             IF named[i].key = key
             THEN [named[i] EXCEPT !.values = Append(@, value)]
             ELSE named[i]]
    ELSE Append(named, [key |-> key, values |-> <<value>>])

RECURSIVE SplitArguments_skips(_, _, _, _)
\* mutant of SplitArguments: a named token with an empty key is skipped
\* instead of ending the call
SplitArguments_skips(args, i, positional, named) ==
    IF i > Len(args)
    THEN [ok |-> TRUE, positional |-> positional, named |-> named]
    ELSE LET arg == Strip(args[i]) IN
         IF StartsWithMarker(arg)
         THEN LET arg_tokens == Split(SubSeq(arg, 3, Len(arg)), "=")
                  key        == Strip(Lower(arg_tokens[1]))
              IN  IF Len(key) > 0
                  THEN SplitArguments_skips(args, i + 1, positional,
                           AppendNamed(named, key, Join(Tail(arg_tokens), "=")))
                  ELSE SplitArguments_skips(args, i + 1, positional, named)
         ELSE SplitArguments_skips(args, i + 1, Append(positional, arg), named)

RECURSIVE SplitArguments(_, _, _, _)
\* the loop that splits up positional and named arguments, from token i on;
\* ok = FALSE is the early return on an invalid named argument format
SplitArguments(args, i, positional, named) ==
    IF i > Len(args)
    THEN [ok |-> TRUE, positional |-> positional, named |-> named]
    ELSE LET arg == Strip(args[i]) IN
         IF StartsWithMarker(arg)
         THEN LET arg_tokens == Split(SubSeq(arg, 3, Len(arg)), "=")
                  key        == Strip(Lower(arg_tokens[1]))
              IN  IF Len(key) > 0
                  THEN SplitArguments(args, i + 1, positional,
                           AppendNamed(named, key, Join(Tail(arg_tokens), "=")))
                  ELSE [ok |-> FALSE, positional |-> positional, named |-> named]
         ELSE SplitArguments(args, i + 1, Append(positional, arg), named)

RECURSIVE MatchCount_trimmed(_, _, _)
\* mutant of MatchCount: the names are compared with the trimmed positional
\* tokens, not with the raw tokens
MatchCount_trimmed(args, expected_positional_arguments, i) ==
    LET specified_positional_arguments == SplitArguments(args, 1, <<>>, <<>>).positional IN
    IF i = Len(expected_positional_arguments) THEN i
    ELSE IF Lower(specified_positional_arguments[i + 1])
                # Lower(expected_positional_arguments[i + 1].name) THEN i
    ELSE MatchCount_trimmed(args, expected_positional_arguments, i + 1)

RECURSIVE MatchCount(_, _, _)
\* the number of matching arguments, i of them matched so far; args[i] is
\* the raw token, and -1 stands for the IndexError of reading past the end
MatchCount(args, expected_positional_arguments, i) ==
    IF i = Len(expected_positional_arguments) THEN i
    ELSE IF i + 1 > Len(args) THEN -1
    ELSE IF Lower(args[i + 1]) # Lower(expected_positional_arguments[i + 1].name) THEN i
    ELSE MatchCount(args, expected_positional_arguments, i + 1)

\* mutant of KeepsHandler: every fully matching registration replaces the
\* best fit found so far
KeepsHandler_last(match_count, expected_positional_arguments, best_fit_count) ==
    match_count = Len(expected_positional_arguments)

\* mutant of KeepsHandler: a fully matching registration replaces a best fit
\* with as many matching arguments
KeepsHandler_ties(match_count, expected_positional_arguments, best_fit_count) ==
    /\ match_count = Len(expected_positional_arguments)
    /\ match_count >= best_fit_count

\* mutant of KeepsHandler: a registration need not match in full
KeepsHandler_partial(match_count, expected_positional_arguments, best_fit_count) ==
    match_count > best_fit_count

\* mutant of KeepsHandler: a registration without positional arguments is
\* never kept
KeepsHandler_positive(match_count, expected_positional_arguments, best_fit_count) ==
    /\ match_count = Len(expected_positional_arguments)
    /\ match_count > best_fit_count
    /\ match_count > 0

\* whether the registration is kept as the new best fit
KeepsHandler(match_count, expected_positional_arguments, best_fit_count) ==
    /\ match_count = Len(expected_positional_arguments)
    /\ match_count > best_fit_count

RECURSIVE BestFit_no_skip(_, _, _, _, _, _)
\* mutant of BestFit: a registration that needs more positional arguments
\* than specified is examined as well
BestFit_no_skip(handlers, args, specified_positional_arguments, index, best_fit_index, best_fit_count) ==
    IF index > Len(handlers)
    THEN [best_fit_index |-> best_fit_index, index_error |-> FALSE]
    ELSE LET expected_positional_arguments == handlers[index][2]
             match_count == MatchCount(args, expected_positional_arguments, 0)
         IN  IF match_count = -1
             THEN [best_fit_index |-> best_fit_index, index_error |-> TRUE]
             ELSE IF KeepsHandler(match_count, expected_positional_arguments, best_fit_count)
             THEN BestFit_no_skip(handlers, args, specified_positional_arguments,
                                  index + 1, index, match_count)
             ELSE BestFit_no_skip(handlers, args, specified_positional_arguments,
                                  index + 1, best_fit_index, best_fit_count)

RECURSIVE BestFit(_, _, _, _, _, _)
\* the loop that finds the handler with the best matching signature, from
\* registration index on (1-based; best_fit_index 0 is the code's -1)
BestFit(handlers, args, specified_positional_arguments, index, best_fit_index, best_fit_count) ==
    IF index > Len(handlers)
    THEN [best_fit_index |-> best_fit_index, index_error |-> FALSE]
    ELSE LET expected_positional_arguments == handlers[index][2] IN
         IF Len(expected_positional_arguments) > Len(specified_positional_arguments)
         THEN BestFit(handlers, args, specified_positional_arguments,
                      index + 1, best_fit_index, best_fit_count)
         ELSE LET match_count == MatchCount(args, expected_positional_arguments, 0) IN
              IF match_count = -1
              THEN [best_fit_index |-> best_fit_index, index_error |-> TRUE]
              ELSE IF KeepsHandler(match_count, expected_positional_arguments, best_fit_count)
              THEN BestFit(handlers, args, specified_positional_arguments,
                           index + 1, index, match_count)
              ELSE BestFit(handlers, args, specified_positional_arguments,
                           index + 1, best_fit_index, best_fit_count)

\* list.remove(x): the list without its first element equal to x
RECURSIVE Remove(_, _)
Remove(list, x) ==
    IF list = <<>> THEN <<>>
    ELSE IF Head(list) = x THEN Tail(list)
    ELSE <<Head(list)>> \o Remove(Tail(list), x)

\* x in list
In(x, list) == \E i \in 1..Len(list) : list[i] = x

\* "if arg_def in not_specified_named_arguments:
\*      not_specified_named_arguments.remove(arg_def)"
Discard(list, arg_def) == IF In(arg_def, list) THEN Remove(list, arg_def) ELSE list

\* mutant of IsDefinitionOf: the name of the definition is not compared
IsDefinitionOf_any(x, arg_name) == TRUE

\* whether definition x is the definition of the specified key arg_name
IsDefinitionOf(x, arg_name) == Lower(arg_name) = x.name

RECURSIVE FindDefinition(_, _, _)
\* the loop that finds the definition of a named argument, from index i on:
\* the index of the first definition with that name, 0 for None
FindDefinition(expected_named_arguments, arg_name, i) ==
    IF i > Len(expected_named_arguments) THEN 0
    ELSE IF IsDefinitionOf(expected_named_arguments[i], arg_name) THEN i
    ELSE FindDefinition(expected_named_arguments, arg_name, i + 1)

\* mutant of CheckOccurrences: max_occurrence is not checked
CheckOccurrences_no_max(arg_values, arg_def) ==
    IF Len(arg_values) < arg_def.min_occurrence THEN "required at least"
    ELSE "-"

\* the check of the number of occurrences against the definition:
\* the error it reports, "-" for none
CheckOccurrences(arg_values, arg_def) ==
    IF Len(arg_values) < arg_def.min_occurrence THEN "required at least"
    ELSE IF Len(arg_values) > arg_def.max_occurrence THEN "allowed at maximum"
    ELSE "-"

RECURSIVE CheckSpecified(_, _, _, _)
\* the loop that checks whether all specified named arguments are expected
\* and within bounds, from entry i of specified_named_arguments on
CheckSpecified(expected_named_arguments, specified_named_arguments, i, not_specified_named_arguments) ==
    IF i > Len(specified_named_arguments)
    THEN [error |-> "-", not_specified |-> not_specified_named_arguments]
    ELSE LET arg_name   == specified_named_arguments[i].key
             arg_values == specified_named_arguments[i].values
             found      == FindDefinition(expected_named_arguments, arg_name, 1)
         IN  IF found = 0
             THEN [error |-> "not allowed", not_specified |-> not_specified_named_arguments]
             ELSE LET arg_def == expected_named_arguments[found]
                      rest    == Discard(not_specified_named_arguments, arg_def)
                      error   == CheckOccurrences(arg_values, arg_def)
                  IN  IF error # "-"
                      THEN [error |-> error, not_specified |-> rest]
                      ELSE CheckSpecified(expected_named_arguments,
                                          specified_named_arguments, i + 1, rest)

\* gp_helpers.readline_if_no_tty() on the standard input in: the value it
\* returns (some = FALSE for None) and the lines left on the standard input
readline_if_no_tty(in) ==
    IF ~in.tty /\ in.lines # <<>>
    THEN [some |-> TRUE, line |-> RStrip(Head(in.lines)),
          stdin |-> [in EXCEPT !.lines = Tail(@)]]
    ELSE [some |-> FALSE, line |-> <<>>, stdin |-> in]

\* the values of the key in specified_named_arguments, <<>> when the key is
\* not in the dict ("if arg_def.name in specified_named_arguments")
SpecifiedValues(specified_named_arguments, name) ==
    IF \E i \in 1..Len(specified_named_arguments) : specified_named_arguments[i].key = name
    THEN LET i == CHOOSE i \in 1..Len(specified_named_arguments) :
                      specified_named_arguments[i].key = name
         IN  specified_named_arguments[i].values
    ELSE <<>>

\* mutant of ReadsStdin: every argument is read from stdin as well
ReadsStdin_all(arg_def) == TRUE

\* whether the argument is read from stdin as well
ReadsStdin(arg_def) == arg_def.from_stdin /\ arg_def.max_occurrence = 1

\* mutant of EffectiveValues: the value read from stdin is applied first
EffectiveValues_stdin_first(command_line_values, read) ==
    IF read.some THEN <<read.line>>
    ELSE command_line_values

\* the list of the argument's effective values
EffectiveValues(command_line_values, read) ==
    IF Len(command_line_values) = 0 /\ read.some THEN <<read.line>>
    ELSE command_line_values

\* mutant of AfterRead: the argument counts as specified after a failed read
AfterRead_failed_read(not_specified_named_arguments, arg_def, read, in) ==
    Discard(not_specified_named_arguments, arg_def)

\* mutant of AfterRead: with a terminal as stdin the argument stays
\* unspecified
AfterRead_terminal_unspecified(not_specified_named_arguments, arg_def, read, in) ==
    IF read.some THEN Discard(not_specified_named_arguments, arg_def)
    ELSE not_specified_named_arguments

\* not_specified_named_arguments after the attempt to read arg_def from stdin
AfterRead(not_specified_named_arguments, arg_def, read, in) ==
    IF read.some THEN Discard(not_specified_named_arguments, arg_def)
    ELSE IF in.tty THEN Discard(not_specified_named_arguments, arg_def)
    ELSE not_specified_named_arguments

\* the empty dict
EmptyDict == [name \in {} |-> <<>>]

\* dict[key] = value
SetItem(dict, key, value) == (key :> value) @@ dict

RECURSIVE CraftEffective(_, _, _, _)
\* the loop that crafts the effective named arguments, from definition i on;
\* acc holds effective_named_arguments, not_specified_named_arguments, the
\* standard input and the reads of standard input made so far
CraftEffective(expected_named_arguments, specified_named_arguments, i, acc) ==
    IF i > Len(expected_named_arguments) THEN acc
    ELSE LET arg_def == expected_named_arguments[i]
             read    == readline_if_no_tty(acc.stdin)
             effective_argument_values ==
                 EffectiveValues(SpecifiedValues(specified_named_arguments, arg_def.name),
                                 IF ReadsStdin(arg_def) THEN read
                                 ELSE [some |-> FALSE, line |-> <<>>, stdin |-> acc.stdin])
             next ==
                 [effective     |-> SetItem(acc.effective, arg_def.name,
                                            effective_argument_values),
                  not_specified |-> IF ReadsStdin(arg_def)
                                    THEN AfterRead(acc.not_specified, arg_def, read, acc.stdin)
                                    ELSE acc.not_specified,
                  stdin         |-> IF ReadsStdin(arg_def) THEN read.stdin ELSE acc.stdin,
                  reads         |-> IF ReadsStdin(arg_def)
                                    THEN Append(acc.reads, [arg_def |-> i, some |-> read.some,
                                                            line |-> read.line])
                                    ELSE acc.reads]
         IN  CraftEffective(expected_named_arguments, specified_named_arguments, i + 1, next)

\* the check whether required named arguments have been specified
RequiredMissing(not_specified_named_arguments) ==
    \E i \in 1..Len(not_specified_named_arguments) :
        not_specified_named_arguments[i].min_occurrence > 0

\* "raise cls(message)": the class of the exception that is raised. The
\* constructor of GeneralError calls super(CommandLineArgumentError, self),
\* a TypeError as self is no CommandLineArgumentError; the constructor of
\* ConfigurationError reads EXIT_CODE_CONFIGURATION_ERROR, a NameError as
\* the module defines EXIT_CODE_CONFIGURATION_EROR only.
NewException(cls) ==
    CASE cls = "GeneralError"       -> "TypeError"
      [] cls = "ConfigurationError" -> "NameError"
      [] OTHER                      -> cls

\* the exit code attached to an exception of a class deriving from
\* ExitCodeError (gp_errors.py), -1 for any other exception; there are no
\* instances of GeneralError and ConfigurationError, see NewException
ExitCodeOf(exc) ==
    CASE exc = "CommandLineArgumentError" -> EXIT_CODE_COMMAND_LINE_ARGUMENT_ERROR
      [] exc = "FileNotFoundError"        -> EXIT_CODE_FILE_NOT_FOUND
      [] exc = "IoError"                  -> EXIT_CODE_IO_ERROR
      [] OTHER -> -1

\* mutant of IsExitCodeError: every exception is taken for an ExitCodeError
IsExitCodeError_any(exc) == TRUE

\* isinstance(e, ExitCodeError)
IsExitCodeError(exc) == ExitCodeOf(exc) # -1

\* mutant of FindExceptionHandler: the last exception handler registered
\* for the type is found
FindExceptionHandler_last(exception_handlers_, exc, i) ==
    LET found == {j \in i..Len(exception_handlers_) : exception_handlers_[j][2] = exc}
    IN  IF found = {} THEN 0 ELSE CHOOSE j \in found : \A m \in found : m <= j

RECURSIVE FindExceptionHandler(_, _, _)
\* the loop over the registered exception handlers, from index i on: the
\* index of the first one registered for exactly type(e), 0 for none
FindExceptionHandler(exception_handlers_, exc, i) ==
    IF i > Len(exception_handlers_) THEN 0
    ELSE IF exception_handlers_[i][2] = exc THEN i
    ELSE FindExceptionHandler(exception_handlers_, exc, i + 1)

\* what a call of process did: its result, the registration it selected (0:
\* none), the calls of command line handlers and of exception handlers it
\* made (each with what the called handler did), the errors it reported, its
\* reads of and what it left on stdin
Outcome(result_, best_fit_index_, handler_calls_, route_calls_, errors_, reads_, in) ==
    [result         |-> result_,
     best_fit_index |-> best_fit_index_,
     handler_calls  |-> handler_calls_,
     route_calls    |-> route_calls_,
     errors         |-> errors_,
     reads          |-> reads_,
     stdin          |-> in]

\* what the caller of a handler gets when the handler does beh: the value
\* it returns, or the exception its raise statement raises
Gets(beh) == IF beh.kind = "raise" THEN Raises(NewException(beh.exc)) ELSE beh

\* the except clause: exception exc was raised in the try block, after the
\* calls handler_calls_; rbeh is what a called exception handler does
HandleException(exception_handlers_, exc, rbeh, best_fit_index_, handler_calls_, reads_, in) ==
    LET route == FindExceptionHandler(exception_handlers_, exc, 1) IN
    IF route # 0
    THEN Outcome(Gets(rbeh), best_fit_index_, handler_calls_,
                 <<[handler |-> exception_handlers_[route][1], exc |-> exc, did |-> rbeh]>>,
                 <<>>, reads_, in)
    ELSE IF IsExitCodeError(exc)
    THEN Outcome(Returns(PyInt(ExitCodeOf(exc))), best_fit_index_, handler_calls_,
                 <<>>, <<exc>>, reads_, in)
    ELSE Outcome(Raises(exc), best_fit_index_, handler_calls_, <<>>, <<>>, reads_, in)

\* "exitcode = handler(...)" and what follows it in the try block; hbeh is
\* what the handler does when called: it returns a value, or it executes
\* "raise cls(message)" (Raises(cls))
InvokeHandler(exception_handlers_, handler, best_fit_index_, positional, effective, hbeh, rbeh, reads_, in) ==
    LET calls == <<[handler    |-> handler,
                    positional |-> positional,
                    named      |-> effective,
                    did        |-> hbeh]>>
    IN  IF hbeh.kind = "raise"
        THEN HandleException(exception_handlers_, NewException(hbeh.exc), rbeh,
                             best_fit_index_, calls, reads_, in)
        ELSE IF hbeh.value.type # "int"
        THEN HandleException(exception_handlers_, "RuntimeError", rbeh,
                             best_fit_index_, calls, reads_, in)
        ELSE Outcome(Returns(hbeh.value), best_fit_index_, calls, <<>>, <<>>, reads_, in)

\* mutant of CallBestFit: the errors of the named arguments are raised as
\* CommandLineArgumentError in the try block
CallBestFit_raises(handlers, exception_handlers_, in, split, best_fit_index_, hbeh, rbeh) ==
    LET handler                  == handlers[best_fit_index_][1]
        expected_named_arguments == handlers[best_fit_index_][3]
        checked == CheckSpecified(expected_named_arguments, split.named, 1,
                                  expected_named_arguments)
    IN  IF checked.error # "-"
        THEN HandleException(exception_handlers_, "CommandLineArgumentError", rbeh,
                             best_fit_index_, <<>>, <<>>, in)
        ELSE LET crafted == CraftEffective(expected_named_arguments, split.named, 1,
                                [effective     |-> EmptyDict,
                                 not_specified |-> checked.not_specified,
                                 stdin         |-> in,
                                 reads         |-> <<>>])
             IN  IF RequiredMissing(crafted.not_specified)
                 THEN HandleException(exception_handlers_, "CommandLineArgumentError", rbeh,
                                      best_fit_index_, <<>>, crafted.reads, crafted.stdin)
                 ELSE InvokeHandler(exception_handlers_, handler, best_fit_index_,
                                    split.positional, crafted.effective,
                                    hbeh, rbeh, crafted.reads, crafted.stdin)

\* the try block: the call of the determined command handler
CallBestFit(handlers, exception_handlers_, in, split, best_fit_index_, hbeh, rbeh) ==
    LET handler                  == handlers[best_fit_index_][1]
        expected_named_arguments == handlers[best_fit_index_][3]
        checked == CheckSpecified(expected_named_arguments, split.named, 1,
                                  expected_named_arguments)
    IN  IF checked.error # "-"
        THEN Outcome(Returns(PyInt(EXIT_CODE_COMMAND_LINE_ARGUMENT_ERROR)),
                     best_fit_index_, <<>>, <<>>, <<checked.error>>, <<>>, in)
        ELSE LET crafted == CraftEffective(expected_named_arguments, split.named, 1,
                                [effective     |-> EmptyDict,
                                 not_specified |-> checked.not_specified,
                                 stdin         |-> in,
                                 reads         |-> <<>>])
             IN  IF RequiredMissing(crafted.not_specified)
                 THEN Outcome(Returns(PyInt(EXIT_CODE_COMMAND_LINE_ARGUMENT_ERROR)),
                              best_fit_index_, <<>>, <<>>, <<"must be specified">>,
                              crafted.reads, crafted.stdin)
                 ELSE InvokeHandler(exception_handlers_, handler, best_fit_index_,
                                    split.positional, crafted.effective,
                                    hbeh, rbeh, crafted.reads, crafted.stdin)

\* CommandProcessor.process(args)
process(handlers, exception_handlers_, in, args_, hbeh, rbeh) ==
    LET split == SplitArguments(args_, 1, <<>>, <<>>) IN
    IF ~split.ok
    THEN Outcome(Returns(PyInt(EXIT_CODE_COMMAND_LINE_ARGUMENT_ERROR)),
                 0, <<>>, <<>>, <<"invalid format">>, <<>>, in)
    ELSE LET fit == BestFit(handlers, args_, split.positional, 1, 0, -1) IN
         IF fit.index_error
         THEN Outcome(Raises("IndexError"), 0, <<>>, <<>>, <<>>, <<>>, in)
         ELSE IF fit.best_fit_index # 0
         THEN CallBestFit(handlers, exception_handlers_, in, split,
                          fit.best_fit_index, hbeh, rbeh)
         ELSE Outcome(Returns(PyNone), 0, <<>>, <<>>, <<>>, <<>>, in)

\* ------------------------------------------------------------------------
\* AppImpl.run
\* ------------------------------------------------------------------------

\* names, character by character
s_run == <<"r", "u", "n">>
s_run_and_enter == <<"r", "u", "n", "-", "a", "n", "d", "-", "e", "n", "t", "e", "r">>

\* mutant of Breaks: the loop over the command processors is never left
Breaks_never(code) == FALSE

\* mutant of Breaks: the loop is left after the first processor that
\* returns an exit code, 0 too
Breaks_any(code) == code # PyNone

\* "if exitcode != 0: break", reached when code is not None
Breaks(code) == code # PyNone /\ code # PyInt(0)

RECURSIVE RunProcessors(_, _, _, _)
\* the loop that lets the command processors process the command, from
\* processor i on; command_processors[i] is what the call
\* processor.process(tuple(argv[1:])) does (Raises(exc): exception exc
\* leaves it); calls lists the processors called so far
RunProcessors(command_processors, i, exitcode, calls) ==
    IF i > Len(command_processors)
    THEN [exitcode |-> exitcode, calls |-> calls, raised |-> "-"]
    ELSE LET did == command_processors[i] IN
         IF did.kind = "raise"
         THEN [exitcode |-> exitcode, calls |-> Append(calls, i), raised |-> did.exc]
         ELSE LET code == did.value IN
              IF code = PyNone
              THEN RunProcessors(command_processors, i + 1, exitcode, Append(calls, i))
              ELSE IF Breaks(code)
              THEN [exitcode |-> code, calls |-> Append(calls, i), raised |-> "-"]
              ELSE RunProcessors(command_processors, i + 1, code, Append(calls, i))

\* mutant of IsRunCommand: the first argument is compared as written
IsRunCommand_exact(argv_) ==
    \/ Len(argv_) > 1 /\ argv_[2] = s_run
    \/ argv_[2] = s_run_and_enter

\* "len(argv) > 1 and argv[1].lower() == "run" or
\*  argv[1].lower() == "run-and-enter"", for an argv of two elements at least
\* (argv[1] of Python is argv_[2] here)
IsRunCommand(argv_) ==
    \/ Len(argv_) > 1 /\ Lower(argv_[2]) = s_run
    \/ Lower(argv_[2]) = s_run_and_enter

\* AppImpl.run() for the command line argv_ and the command processors the
\* plugins provide: the processors called and the result. configure_logging
\* reads argv[1] first, an IndexError without arguments.
run(argv_, command_processors) ==
    IF Len(argv_) < 2
    THEN [argv |-> argv_, command_processors |-> command_processors, calls |-> <<>>,
          result |-> Raises("IndexError")]
    ELSE LET loop == RunProcessors(command_processors, 1, PyNone, <<>>) IN
         [argv |-> argv_, command_processors |-> command_processors, calls |-> loop.calls,
          result |-> IF loop.raised # "-" THEN Raises(loop.raised)
                     ELSE IF loop.exitcode = PyNone /\ IsRunCommand(argv_)
                     THEN Returns(PyInt(0))
                     ELSE IF loop.exitcode = PyNone THEN Returns(PyInt(127))
                     ELSE Returns(loop.exitcode)]

\* ------------------------------------------------------------------------
\* The inputs of the model
\* ------------------------------------------------------------------------

\* names, character by character
s_RUN == <<"R", "U", "N">>
s_x   == <<"x">>
s_k   == <<"k">>
s_K   == <<"K">>
s_j   == <<"j">>

\* the tokens of the invocations that exercise the selection of a handler:
\* "Run", " run", "x", "--k", "--" and "--=a"
Tokens ==
    { <<"R", "u", "n">>,
      <<" ", "r", "u", "n">>,
      <<"x">>,
      <<"-", "-", "k">>,
      <<"-", "-">>,
      <<"-", "-", "=", "a">> }

\* the argument lists passed to add_handler in that setting; the last one
\* holds an object that is no argument definition
Signatures ==
    { <<>>,
      <<PositionalArgument(s_run)>>,
      <<PositionalArgument(s_RUN), PositionalArgument(s_x)>>,
      <<PositionalArgument(s_run), NamedArgument(s_k, FALSE, 0, 1)>>,
      <<PositionalArgument(s_run), [class |-> "str"]>> }

\* the tokens of the invocations that exercise the named arguments:
\* "run", " x", "--k=a=b" and "--K "
NamedTokens ==
    { <<"r", "u", "n">>,
      <<" ", "x">>,
      <<"-", "-", "k", "=", "a", "=", "b">>,
      <<"-", "-", "K", " ">> }

\* the argument lists passed to add_handler in that setting
NamedSignatures ==
    { <<NamedArgument(s_k, TRUE, 1, 1), NamedArgument(s_j, TRUE, 0, 1)>>,
      <<NamedArgument(s_k, TRUE, 0, 1), NamedArgument(s_k, FALSE, 0, 2)>>,
      <<NamedArgument(s_k, FALSE, 2, 2), NamedArgument(s_K, FALSE, 0, 1)>>,
      <<PositionalArgument(s_run), NamedArgument(s_j, FALSE, 0, 1)>> }

\* the invocations: the sequences of at most n tokens
Invocations(tokens, n) == UNION { [1..m -> tokens] : m \in 0..n }

\* a terminal as the standard input
Terminal == [tty |-> TRUE, lines |-> <<>>]

\* the standard input at the start: a terminal, or a pipe holding nothing,
\* the line "a " or the lines "a " and "b"
StdinInputs ==
    { Terminal,
      [tty |-> FALSE, lines |-> <<>>],
      [tty |-> FALSE, lines |-> << <<"a", " ">> >>],
      [tty |-> FALSE, lines |-> << <<"a", " ">>, <<"b">> >>] }

\* what a command line handler does when called
HandlerBehaviours ==
    { Returns(PyInt(0)), Returns(PyInt(3)), Raises("CommandLineArgumentError") }

\* what an exception handler does when called
RouteBehaviours == { Returns(PyInt(7)) }

\* the exception types exception handlers are registered for
ExceptionTypes == { "CommandLineArgumentError" }

\* the argument lists passed to add_handler where the handling of
\* exceptions is exercised
RouteSignatures == { <<>>, <<PositionalArgument(s_run)>> }

\* the classes of gp_errors.py that derive from ExitCodeError
ExitCodeErrors ==
    { "GeneralError", "CommandLineArgumentError", "FileNotFoundError", "IoError",
      "ConfigurationError" }

\* what a command line handler does when called, in that setting: it
\* returns an int, a str or None, or raises an exception of gp_errors.py or
\* a ValueError
RaisingHandlerBehaviours ==
    { Returns(PyInt(0)), Returns(PyStr), Returns(PyNone) }
    \cup { Raises(cls) : cls \in ExitCodeErrors \cup {"ValueError"} }

\* what an exception handler does when called, in that setting
RaisingRouteBehaviours == { Returns(PyInt(7)), Returns(PyStr), Raises("KeyError") }

\* the exception types exception handlers are registered for, in that
\* setting
RouteExceptionTypes ==
    { "CommandLineArgumentError", "GeneralError", "RuntimeError", "ValueError" }

\* sys.argv: the script alone, or with "run", "Run-And-Enter" or "x"
ArgvInputs ==
    { << <<"s">> >>,
      << <<"s">>, s_run >>,
      << <<"s">>, <<"R", "u", "n", "-", "A", "n", "d", "-", "E", "n", "t", "e", "r">> >>,
      << <<"s">>, s_x >> }

\* what the call of process of a command processor does
ProcessorBehaviours ==
    { Returns(PyNone), Returns(PyInt(0)), Returns(PyInt(3)), Raises("ValueError") }

\* the lists of command processors the plugins provide, by what their
\* process does
ProcessorLists == UNION { [1..n -> ProcessorBehaviours] : n \in 0..MaxProcessors }

\* the tokens of the invocations that exercise the names of the named
\* arguments and the argument errors: "run", "--K=a", "--k", "--j" and "--"
KeyTokens ==
    { <<"r", "u", "n">>,
      <<"-", "-", "K", "=", "a">>,
      <<"-", "-", "k">>,
      <<"-", "-", "j">>,
      <<"-", "-">> }

\* the argument lists passed to add_handler in that setting: a name with an
\* upper-case letter, a required argument next to one read from stdin as
\* well, and a name defined twice, the second time to be read from stdin
KeySignatures ==
    { <<PositionalArgument(s_run), NamedArgument(s_K, FALSE, 0, 1)>>,
      <<NamedArgument(s_k, FALSE, 1, 1), NamedArgument(s_j, TRUE, 0, 1)>>,
      <<NamedArgument(s_k, FALSE, 0, 1), NamedArgument(s_k, TRUE, 0, 1)>> }

\* ------------------------------------------------------------------------
\* The state
\* ------------------------------------------------------------------------

VARIABLES
    cmdline_handlers,    \* CommandProcessor.__cmdline_handlers
    exception_handlers,  \* CommandProcessor.__exception_handlers
    stdin,               \* sys.stdin: whether it is a terminal, the lines left
    pc,                  \* "idle", "returned" (process returned), "raised"
    args,                \* the invocation of the last call of process
    outcome,             \* what the last call of process did
    construction,        \* the last call of NamedArgument(...) and its result
    app                  \* the last call of AppImpl.run() and what it did

vars == <<cmdline_handlers, exception_handlers, stdin, pc, args, outcome, construction, app>>

NoOutcome == Outcome(NoCall, 0, <<>>, <<>>, <<>>, <<>>, Terminal)

\* no call of the constructor of NamedArgument yet
NoConstruction ==
    [name |-> <<>>, from_stdin |-> FALSE, min_occurrence |-> 0, max_occurrence |-> 0,
     result |-> [class |-> "-"]]

\* no call of AppImpl.run yet
NoRun == [argv |-> <<>>, command_processors |-> <<>>, calls |-> <<>>, result |-> NoCall]

\* what CommandProcessor.__init__ leaves, before any call of process
Constructed ==
    /\ cmdline_handlers = <<>>
    /\ exception_handlers = <<>>
    /\ pc = "idle"
    /\ args = <<>>
    /\ outcome = NoOutcome
    /\ construction = NoConstruction
    /\ app = NoRun

\* a processor just constructed, in a process attached to a terminal
Init ==
    /\ Constructed
    /\ stdin = Terminal

\* a processor just constructed, with any standard input
InitNamed ==
    /\ Constructed
    /\ stdin \in StdinInputs

\* the elements of list whose class is class, in their order
RECURSIVE OfClass(_, _)
OfClass(list, class) ==
    IF list = <<>> THEN <<>>
    ELSE IF Head(list).class = class THEN <<Head(list)>> \o OfClass(Tail(list), class)
    ELSE OfClass(Tail(list), class)

\* whether add_handler accepts every element of its argument list
OnlyArguments(list) ==
    \A i \in 1..Len(list) : list[i].class \in {"PositionalArgument", "NamedArgument"}

\* the registration add_handler appends
Registration(handler, list) ==
    <<handler, OfClass(list, "PositionalArgument"), OfClass(list, "NamedArgument")>>

\* mutant of AddHandler: the registration is appended before the elements
\* of the argument list are looked at
AddHandler_partial(handler, list) ==
    /\ pc = "idle"
    /\ Len(cmdline_handlers) < MaxRegs
    /\ cmdline_handlers' = Append(cmdline_handlers, Registration(handler, list))
    /\ pc' = IF OnlyArguments(list) THEN pc ELSE "raised"
    /\ UNCHANGED <<exception_handlers, stdin, args, outcome, construction, app>>

\* CommandProcessor.add_handler(handler, *args): a TypeError leaves the
\* registry as it is and ends the program
AddHandler(handler, list) ==
    /\ pc = "idle"
    /\ Len(cmdline_handlers) < MaxRegs
    /\ IF OnlyArguments(list)
       THEN /\ cmdline_handlers' = Append(cmdline_handlers, Registration(handler, list))
            /\ pc' = pc
       ELSE /\ cmdline_handlers' = cmdline_handlers
            /\ pc' = "raised"
    /\ UNCHANGED <<exception_handlers, stdin, args, outcome, construction, app>>

\* CommandProcessor.add_exception_handler(handler, exception_type)
AddExceptionHandler(handler, exception_type) ==
    /\ pc = "idle"
    /\ Len(exception_handlers) < MaxRoutes
    /\ exception_handlers' = Append(exception_handlers, <<handler, exception_type>>)
    /\ UNCHANGED <<cmdline_handlers, stdin, pc, args, outcome, construction, app>>

\* a call of NamedArgument(name, from_stdin, min_occurrence, max_occurrence):
\* a ValueError of the constructor ends the program
NewNamedArgument(name, from_stdin, min_occurrence, max_occurrence) ==
    /\ pc = "idle"
    /\ LET result == NamedArgument(name, from_stdin, min_occurrence, max_occurrence)
       IN  /\ construction' = [name           |-> name,
                               from_stdin     |-> from_stdin,
                               min_occurrence |-> min_occurrence,
                               max_occurrence |-> max_occurrence,
                               result         |-> result]
           /\ pc' = IF result.class = "ValueError" THEN "raised" ELSE pc
    /\ UNCHANGED <<cmdline_handlers, exception_handlers, stdin, args, outcome, app>>

\* add_handler(handler, definition) with the NamedArgument constructed last
AddHandlerOfConstructed(handler) ==
    /\ construction.result.class = "NamedArgument"
    /\ AddHandler(handler, <<construction.result>>)

\* mutant of Process: not_specified_named_arguments is the list of the
\* registration, not a copy of it, so the definitions of the specified named
\* arguments are removed from the registration
Process_aliased(args_, hbeh, rbeh) ==
    /\ pc = "idle"
    /\ LET o == process(cmdline_handlers, exception_handlers, stdin, args_, hbeh, rbeh)
           split == SplitArguments(args_, 1, <<>>, <<>>)
       IN  /\ args' = args_
           /\ outcome' = o
           /\ stdin' = o.stdin
           /\ pc' = IF o.result.kind = "raise" THEN "raised" ELSE "returned"
           /\ cmdline_handlers' =
                  IF o.best_fit_index = 0 THEN cmdline_handlers
                  ELSE [cmdline_handlers EXCEPT ![o.best_fit_index][3] =
                            CheckSpecified(@, split.named, 1, @).not_specified]
    /\ UNCHANGED <<exception_handlers, construction, app>>

\* a call of CommandProcessor.process(args)
Process(args_, hbeh, rbeh) ==
    /\ pc = "idle"
    /\ LET o == process(cmdline_handlers, exception_handlers, stdin, args_, hbeh, rbeh)
       IN  /\ args' = args_
           /\ outcome' = o
           /\ stdin' = o.stdin
           /\ pc' = IF o.result.kind = "raise" THEN "raised" ELSE "returned"
    /\ UNCHANGED <<cmdline_handlers, exception_handlers, construction, app>>

\* a call of AppImpl.run()
Run(argv_, command_processors) ==
    /\ pc = "idle"
    /\ app' = run(argv_, command_processors)
    /\ pc' = IF app'.result.kind = "raise" THEN "raised" ELSE "returned"
    /\ UNCHANGED <<cmdline_handlers, exception_handlers, stdin, args, outcome, construction>>

\* startup.py: sys.exit(exitcode)
Exit ==
    /\ pc = "returned"
    /\ app.result.kind = "return"
    /\ pc' = "exited"
    /\ UNCHANGED <<cmdline_handlers, exception_handlers, stdin, args, outcome, construction, app>>

\* the caller takes the value process returned
ReturnToCaller ==
    /\ pc = "returned"
    /\ pc' = "idle"
    /\ args' = <<>>
    /\ outcome' = NoOutcome
    /\ UNCHANGED <<cmdline_handlers, exception_handlers, stdin, construction, app>>

\* the selection of a handler: registrations that differ in their positional
\* arguments, exception handlers, invocations of every shape
Next ==
    \/ \E list \in Signatures : AddHandler(Len(cmdline_handlers) + 1, list)
    \/ \E exception_type \in ExceptionTypes :
           AddExceptionHandler(Len(exception_handlers) + 1, exception_type)
    \/ \E args_ \in Invocations(Tokens, MaxArgs), hbeh \in HandlerBehaviours,
          rbeh \in RouteBehaviours :
           Process(args_, hbeh, rbeh)
    \/ ReturnToCaller

Spec == Init /\ [][Next]_vars

\* the named arguments: registrations that differ in their named arguments,
\* invocations with named tokens, every standard input
NextNamed ==
    \/ \E list \in NamedSignatures : AddHandler(Len(cmdline_handlers) + 1, list)
    \/ \E args_ \in Invocations(NamedTokens, MaxNamedArgs),
          hbeh \in {Returns(PyInt(0)), Returns(PyInt(3))} :
           Process(args_, hbeh, Returns(PyInt(7)))
    \/ ReturnToCaller

SpecNamed == InitNamed /\ [][NextNamed]_vars

\* the handling of exceptions: handlers that raise or return what is no
\* exit code, exception handlers for several exception types
NextRoutes ==
    \/ \E list \in RouteSignatures : AddHandler(Len(cmdline_handlers) + 1, list)
    \/ \E exception_type \in RouteExceptionTypes :
           AddExceptionHandler(Len(exception_handlers) + 1, exception_type)
    \/ \E args_ \in Invocations({s_run}, 1), hbeh \in RaisingHandlerBehaviours,
          rbeh \in RaisingRouteBehaviours :
           Process(args_, hbeh, rbeh)
    \/ ReturnToCaller

SpecRoutes == Init /\ [][NextRoutes]_vars

\* the application: AppImpl.run for every command line and every list of
\* command processors
NextApp ==
    \/ \E argv_ \in ArgvInputs, command_processors \in ProcessorLists :
           Run(argv_, command_processors)
    \/ Exit

SpecApp == Init /\ [][NextApp]_vars

\* the construction of named argument definitions and their registration
NextDefinitions ==
    \/ \E from_stdin \in BOOLEAN, min_occurrence \in 0..MaxOccurrence,
          max_occurrence \in 0..MaxOccurrence :
           NewNamedArgument(s_k, from_stdin, min_occurrence, max_occurrence)
    \/ AddHandlerOfConstructed(Len(cmdline_handlers) + 1)

SpecDefinitions == Init /\ [][NextDefinitions]_vars

\* the names of the named arguments and the argument errors: definitions
\* named in upper case or twice, invocations that break each rule of the
\* named arguments, an exception handler for the CommandLineArgumentError
NextKeys ==
    \/ \E list \in KeySignatures : AddHandler(Len(cmdline_handlers) + 1, list)
    \/ \E exception_type \in ExceptionTypes :
           AddExceptionHandler(Len(exception_handlers) + 1, exception_type)
    \/ \E args_ \in Invocations(KeyTokens, MaxArgs), hbeh \in HandlerBehaviours,
          rbeh \in RouteBehaviours :
           Process(args_, hbeh, rbeh)
    \/ ReturnToCaller

SpecKeys == InitNamed /\ [][NextKeys]_vars

\* ------------------------------------------------------------------------
\* What an invocation is, read off its tokens
\* ------------------------------------------------------------------------

\* a call of process has been made, and outcome is what it did
Called == outcome.result.kind # "-"

\* the token is a named one: trimmed, it starts with the marker
IsNamedToken(token) == StartsWithMarker(Strip(token))

\* a named token without its marker
AfterMarker(token) == SubSeq(Strip(token), 3, Len(Strip(token)))

\* the places of "=" in a text
EqualSigns(text) == {j \in 1..Len(text) : text[j] = "="}

\* the place of the first of them
FirstEqualSign(text) == CHOOSE j \in EqualSigns(text) : \A m \in EqualSigns(text) : j <= m

\* the key of a named token: the text between the marker and the first "=",
\* lower-cased and trimmed
KeyOf(token) ==
    LET text == AfterMarker(token) IN
    Strip(Lower(IF EqualSigns(text) = {} THEN text
                ELSE SubSeq(text, 1, FirstEqualSign(text) - 1)))

\* the value of a named token: the text after the first "=", empty without
ValueOf(token) ==
    LET text == AfterMarker(token) IN
    IF EqualSigns(text) = {} THEN <<>>
    ELSE SubSeq(text, FirstEqualSign(text) + 1, Len(text))

\* a named token with an empty key
Malformed(token) == IsNamedToken(token) /\ KeyOf(token) = <<>>

\* an invocation without malformed token
WellFormed(invocation) == \A i \in 1..Len(invocation) : ~Malformed(invocation[i])

\* the positional tokens of an invocation, trimmed, in their order
PositionalTokens(invocation) ==
    LET positional == SelectSeq(invocation, LAMBDA token : ~IsNamedToken(token))
    IN  [i \in 1..Len(positional) |-> Strip(positional[i])]

\* the keys supplied on the command line
SuppliedKeys(invocation) ==
    {KeyOf(invocation[i]) : i \in {j \in 1..Len(invocation) : IsNamedToken(invocation[j])}}

\* the values supplied for a key, in their order of occurrence
ValuesOf(invocation, key) ==
    LET tokens == SelectSeq(invocation,
                            LAMBDA token : IsNamedToken(token) /\ KeyOf(token) = key)
    IN  [i \in 1..Len(tokens) |-> ValueOf(tokens[i])]

\* the positional argument definitions of registration r of the registry
PositionalOf(r) == cmdline_handlers[r][2]

\* the named argument definitions of registration r of the registry
NamedOf(r) == cmdline_handlers[r][3]

\* registration r fully matches the invocation: it needs no more positional
\* tokens than were supplied, and each of its positional names equals,
\* ignoring case, the raw token at the same index
FullyMatches(r, invocation) ==
    /\ Len(PositionalOf(r)) <= Len(PositionalTokens(invocation))
    /\ \A i \in 1..Len(PositionalOf(r)) :
           Lower(invocation[i]) = Lower(PositionalOf(r)[i].name)

Registrations == 1..Len(cmdline_handlers)

\* the command line handler of registration r was called
Invoked(r) ==
    \E i \in 1..Len(outcome.handler_calls) :
        outcome.handler_calls[i].handler = cmdline_handlers[r][1]

\* the call reported the command line argument error: process returned exit
\* code 2 and called no command line handler
ArgumentError ==
    /\ outcome.result = Returns(PyInt(EXIT_CODE_COMMAND_LINE_ARGUMENT_ERROR))
    /\ outcome.handler_calls = <<>>

\* ------------------------------------------------------------------------
\* The claims
\* ------------------------------------------------------------------------

\* C1: when two registrations both fully match the invocation and one has
\* strictly more positional arguments than the other, the shorter one is
\* neither selected nor is its handler called, whichever was registered
\* first; the registration selected for a well-formed invocation that some
\* registration fully matches is a fully matching one with the largest
\* number of positional arguments.
C1_LongestFullMatchSelected ==
    Called =>
        /\ \A r1, r2 \in Registrations :
               ( /\ FullyMatches(r1, args)
                 /\ FullyMatches(r2, args)
                 /\ Len(PositionalOf(r1)) > Len(PositionalOf(r2)) )
               => outcome.best_fit_index # r2 /\ ~Invoked(r2)
        /\ (WellFormed(args) /\ \E r \in Registrations : FullyMatches(r, args))
           => /\ outcome.best_fit_index \in Registrations
              /\ FullyMatches(outcome.best_fit_index, args)
              /\ \A r \in Registrations :
                     FullyMatches(r, args)
                     => Len(PositionalOf(r)) <= Len(PositionalOf(outcome.best_fit_index))

\* C1 witness: the registration with more positional arguments was registered
\* after a shorter one that fully matches too, and its handler was called.
C1_Witness ==
    /\ Called
    /\ \E r1, r2 \in Registrations :
           /\ r2 < r1
           /\ FullyMatches(r1, args)
           /\ FullyMatches(r2, args)
           /\ Len(PositionalOf(r1)) > Len(PositionalOf(r2))
           /\ Len(PositionalOf(r2)) > 0
           /\ Invoked(r1)

\* C2: among the fully matching registrations with the largest number of
\* positional arguments, the one registered first is the one selected, and
\* any command line handler called is its handler.
C2_FirstRegisteredWinsTie ==
    (Called /\ WellFormed(args)) =>
        \A r \in Registrations :
            ( /\ FullyMatches(r, args)
              /\ \A q \in Registrations :
                     FullyMatches(q, args)
                     => /\ Len(PositionalOf(q)) <= Len(PositionalOf(r))
                        /\ (Len(PositionalOf(q)) = Len(PositionalOf(r)) => r <= q) )
            => /\ outcome.best_fit_index = r
               /\ \A i \in 1..Len(outcome.handler_calls) :
                      outcome.handler_calls[i].handler = cmdline_handlers[r][1]

\* C2 witness: two registrations with the same positive number of positional
\* arguments fully match, and the handler of the first one was called.
C2_Witness ==
    /\ Called
    /\ \E r, q \in Registrations :
           /\ r < q
           /\ FullyMatches(r, args)
           /\ FullyMatches(q, args)
           /\ Len(PositionalOf(r)) = Len(PositionalOf(q))
           /\ Len(PositionalOf(r)) > 0
           /\ outcome.best_fit_index = r
           /\ Invoked(r)

\* C3: when no registration fully matches a well-formed invocation, process
\* returns None: no command line handler and no exception handler is called
\* and no error is reported.
C3_NoMatchNotHandled ==
    ( /\ Called
      /\ WellFormed(args)
      /\ \A r \in Registrations : ~FullyMatches(r, args) )
    => /\ outcome.result = Returns(PyNone)
       /\ outcome.handler_calls = <<>>
       /\ outcome.route_calls = <<>>
       /\ outcome.errors = <<>>

\* C3 witness: a processor with an exception handler and two registrations,
\* one needing more positional tokens than were supplied and one differing
\* from the invocation at a positional index, returned None.
C3_Witness ==
    /\ Called
    /\ WellFormed(args)
    /\ exception_handlers # <<>>
    /\ \E r, q \in Registrations :
           /\ Len(PositionalOf(r)) > Len(PositionalTokens(args))
           /\ Len(PositionalOf(q)) <= Len(PositionalTokens(args))
           /\ ~FullyMatches(q, args)
    /\ \A r \in Registrations : ~FullyMatches(r, args)
    /\ outcome.result = Returns(PyNone)

\* C4: an invocation holding a named token with an empty key, wherever it
\* stands, makes process return exit code 2 with no command line handler and
\* no exception handler called, for every registry.
C4_MalformedTokenIsArgumentError ==
    (Called /\ ~WellFormed(args)) =>
        /\ ArgumentError
        /\ outcome.route_calls = <<>>

\* C4 witness: the malformed token follows a token that a registration fully
\* matches, in a processor with an exception handler.
C4_Witness ==
    /\ Called
    /\ Len(args) = 2
    /\ ~Malformed(args[1])
    /\ Malformed(args[2])
    /\ exception_handlers # <<>>
    /\ \E r \in Registrations :
           /\ Len(PositionalOf(r)) = 1
           /\ Lower(args[1]) = Lower(PositionalOf(r)[1].name)
    /\ ArgumentError

\* the registration the call selected
Selected == outcome.best_fit_index

\* the call selected a registration
HasSelected == Called /\ Selected \in Registrations

\* the errors of steps 1, 3 and 5: the tokenizing of the invocation and the
\* validation of its named arguments
ValidationErrors ==
    {"invalid format", "not allowed", "required at least", "allowed at maximum",
     "must be specified"}

\* the call reported none of them
ValidationPassed ==
    \A i \in 1..Len(outcome.errors) : outcome.errors[i] \notin ValidationErrors

\* the definitions of the selected registration with this name
DefinitionsOf(key) ==
    {i \in 1..Len(NamedOf(Selected)) : NamedOf(Selected)[i].name = key}

\* the definition of a supplied key: the first one with its name
DefinitionOf(key) ==
    NamedOf(Selected)[CHOOSE i \in DefinitionsOf(key) : \A j \in DefinitionsOf(key) : i <= j]

\* the lines read from the standard input for definition i of the selected
\* registration
LinesReadFor(i) ==
    {outcome.reads[n].line : n \in {m \in 1..Len(outcome.reads) :
                                        /\ outcome.reads[m].arg_def = i
                                        /\ outcome.reads[m].some}}

\* C5: when a registration is selected and the validation passes, its handler
\* is called exactly once, with all positional tokens of the invocation in
\* their order and, for each key supplied on the command line, the values of
\* the key in their order of occurrence; when the handler returns an integer,
\* process returns that integer.
C5_HandlerReceivesArguments ==
    (HasSelected /\ ValidationPassed) =>
        /\ Len(outcome.handler_calls) = 1
        /\ LET call == outcome.handler_calls[1] IN
           /\ call.handler = cmdline_handlers[Selected][1]
           /\ call.positional = PositionalTokens(args)
           /\ \A key \in SuppliedKeys(args) :
                  /\ key \in DOMAIN call.named
                  /\ call.named[key] = ValuesOf(args, key)
           /\ (call.did.kind = "return" /\ call.did.value.type = "int")
              => outcome.result = Returns(call.did.value)

\* C5 witness: the handler was called with a positional token beyond the
\* matched prefix and two values of one key, and process returned the 3 the
\* handler returned.
C5_Witness ==
    /\ HasSelected
    /\ Len(outcome.handler_calls) = 1
    /\ Len(outcome.handler_calls[1].positional) > Len(PositionalOf(Selected))
    /\ \E key \in SuppliedKeys(args) : Len(outcome.handler_calls[1].named[key]) = 2
    /\ outcome.handler_calls[1].did = Returns(PyInt(3))
    /\ outcome.result = Returns(PyInt(3))

\* C6: a key supplied on the command line that no named argument definition
\* of the selected registration is named after makes process return exit
\* code 2 without calling the handler, whatever the other registrations
\* define.
C6_UndeclaredNamedArgumentRejected ==
    HasSelected =>
        \A key \in SuppliedKeys(args) :
            DefinitionsOf(key) = {} => ArgumentError

\* C6 witness: the key is defined by another registration, not by the
\* selected one, and the call reported that it is not allowed.
C6_Witness ==
    /\ HasSelected
    /\ \E key \in SuppliedKeys(args) :
           /\ DefinitionsOf(key) = {}
           /\ \E r \in Registrations, i \in 1..MaxRegs + MaxNamedArgs :
                  /\ r # Selected
                  /\ i <= Len(NamedOf(r))
                  /\ NamedOf(r)[i].name = key
    /\ ArgumentError
    /\ outcome.errors = <<"not allowed">>

\* C7: a key supplied on the command line fewer times than the
\* min_occurrence or more times than the max_occurrence of its definition in
\* the selected registration makes process return exit code 2 without
\* calling the handler.
C7_OccurrencesOutOfBoundsRejected ==
    HasSelected =>
        \A key \in SuppliedKeys(args) :
            ( /\ DefinitionsOf(key) # {}
              /\ \/ Len(ValuesOf(args, key)) < DefinitionOf(key).min_occurrence
                 \/ Len(ValuesOf(args, key)) > DefinitionOf(key).max_occurrence )
            => ArgumentError

\* C7 witness: a key whose definition has max_occurrence 1 was supplied
\* twice, and the call reported that.
C7_Witness ==
    /\ HasSelected
    /\ \E key \in SuppliedKeys(args) :
           /\ DefinitionsOf(key) # {}
           /\ DefinitionOf(key).max_occurrence = 1
           /\ Len(ValuesOf(args, key)) = 2
    /\ ArgumentError
    /\ outcome.errors = <<"allowed at maximum">>

\* C8: a named argument of the selected registration with min_occurrence of
\* at least 1 that is not supplied on the command line, and that is not read
\* from stdin as well or for which stdin, not a terminal, yields no line,
\* makes process return exit code 2 without calling the handler.
C8_MissingRequiredRejected ==
    HasSelected =>
        \A i \in 1..Len(NamedOf(Selected)) :
            LET arg_def == NamedOf(Selected)[i] IN
            ( /\ arg_def.min_occurrence >= 1
              /\ arg_def.name \notin SuppliedKeys(args)
              /\ \/ ~(arg_def.from_stdin /\ arg_def.max_occurrence = 1)
                 \/ ~stdin.tty /\ LinesReadFor(i) = {} )
            => ArgumentError

\* C8 witness: the required argument is read from stdin as well, stdin is
\* not a terminal, a read was made for it and yielded no line, and the call
\* reported that the argument must be specified.
C8_Witness ==
    /\ HasSelected
    /\ ~stdin.tty
    /\ \E i \in 1..Len(NamedOf(Selected)) :
           /\ NamedOf(Selected)[i].min_occurrence >= 1
           /\ NamedOf(Selected)[i].from_stdin
           /\ NamedOf(Selected)[i].name \notin SuppliedKeys(args)
           /\ \E n \in 1..Len(outcome.reads) :
                  outcome.reads[n].arg_def = i /\ ~outcome.reads[n].some
    /\ ArgumentError
    /\ outcome.errors = <<"must be specified">>

\* C9: for a named argument read from stdin as well, with max_occurrence 1,
\* that is absent from the command line, when stdin is not a terminal and
\* provides a line for it, the handler receives that line, and nothing else,
\* as the values of the argument.
C9_StdinLineDelivered ==
    (HasSelected /\ outcome.handler_calls # <<>>) =>
        \A i \in 1..Len(NamedOf(Selected)) :
            LET arg_def == NamedOf(Selected)[i] IN
            ( /\ arg_def.from_stdin
              /\ arg_def.max_occurrence = 1
              /\ arg_def.name \notin SuppliedKeys(args)
              /\ ~stdin.tty )
            => \A line \in LinesReadFor(i) :
                   outcome.handler_calls[1].named[arg_def.name] = <<line>>

\* C10: for a named argument read from stdin as well that is supplied on the
\* command line, the values the handler receives are the values of the
\* command line, whether or not stdin is a terminal or holds a line.
C10_CommandLineHasPrecedence ==
    (HasSelected /\ outcome.handler_calls # <<>>) =>
        \A i \in 1..Len(NamedOf(Selected)) :
            LET arg_def == NamedOf(Selected)[i] IN
            (arg_def.from_stdin /\ arg_def.name \in SuppliedKeys(args))
            => outcome.handler_calls[1].named[arg_def.name] = ValuesOf(args, arg_def.name)

\* C10 witness: a line was read from stdin for the argument, and the handler
\* received the value of the command line, which is not that line.
C10_Witness ==
    /\ HasSelected
    /\ outcome.handler_calls # <<>>
    /\ \E i \in 1..Len(NamedOf(Selected)) :
           LET arg_def == NamedOf(Selected)[i] IN
           /\ arg_def.from_stdin
           /\ arg_def.name \in SuppliedKeys(args)
           /\ LinesReadFor(i) # {}
           /\ outcome.handler_calls[1].named[arg_def.name] = ValuesOf(args, arg_def.name)
           /\ \A line \in LinesReadFor(i) : ValuesOf(args, arg_def.name) # <<line>>

\* ------------------------------------------------------------------------
\* Exceptions of the handler
\* ------------------------------------------------------------------------

\* the call of process called a command line handler, and the handler raised
HandlerRaised ==
    /\ Called
    /\ Len(outcome.handler_calls) = 1
    /\ outcome.handler_calls[1].did.kind = "raise"

\* the class of the exception the handler raised
RaisedError == NewException(outcome.handler_calls[1].did.exc)

\* the exception handlers registered for an exception type
RoutesFor(exception_type) ==
    {i \in 1..Len(exception_handlers) : exception_handlers[i][2] = exception_type}

\* the first of them
FirstRouteFor(exception_type) ==
    CHOOSE i \in RoutesFor(exception_type) : \A j \in RoutesFor(exception_type) : i <= j

\* C11: when the selected handler raises an error for whose type exception
\* handlers are registered, the first of them registered is called with the
\* error, no other is called, and process returns what it returns, also when
\* the error carries an exit code.
C11_FirstRouteHandlesError ==
    (HandlerRaised /\ RoutesFor(RaisedError) # {}) =>
        /\ Len(outcome.route_calls) = 1
        /\ outcome.route_calls[1].handler = exception_handlers[FirstRouteFor(RaisedError)][1]
        /\ outcome.route_calls[1].exc = RaisedError
        /\ outcome.route_calls[1].did.kind = "return"
           => outcome.result = outcome.route_calls[1].did

\* C11 witness: the handler raised a CommandLineArgumentError, two exception
\* handlers are registered for it, the first one was called and process
\* returned its 7, not the exit code 2 of the error.
C11_Witness ==
    /\ HandlerRaised
    /\ RaisedError = "CommandLineArgumentError"
    /\ RoutesFor(RaisedError) = {1, 2}
    /\ Len(outcome.route_calls) = 1
    /\ outcome.route_calls[1].handler = exception_handlers[1][1]
    /\ outcome.result = Returns(PyInt(7))

\* the exit code table of the errors that carry an exit code
ExitCodeTable(cls) ==
    CASE cls = "GeneralError"             -> 1
      [] cls = "CommandLineArgumentError" -> 2
      [] cls = "FileNotFoundError"        -> 3
      [] cls = "IoError"                  -> 4
      [] cls = "ConfigurationError"       -> 5

\* C12: a handler that raises an error of one of the five kinds that carry
\* an exit code, while no exception handler is registered for the kind or
\* for what is raised, makes process return the exit code of the kind: 1 for
\* GeneralError, 2 for CommandLineArgumentError, 3 for FileNotFoundError, 4
\* for IoError and 5 for ConfigurationError.
C12_ExitCodeOfErrorReturned ==
    HandlerRaised =>
        LET cls == outcome.handler_calls[1].did.exc IN
        (cls \in ExitCodeErrors /\ RoutesFor(cls) = {} /\ RoutesFor(RaisedError) = {})
        => outcome.result = Returns(PyInt(ExitCodeTable(cls)))

\* C13: when the selected handler raises an error for whose type no
\* exception handler is registered and that carries no exit code, process
\* returns nothing: the error propagates to the caller, and no exception
\* handler is called.
C13_OtherErrorPropagates ==
    (HandlerRaised /\ RoutesFor(RaisedError) = {} /\ RaisedError \notin ExitCodeErrors) =>
        /\ outcome.result = Raises(RaisedError)
        /\ outcome.route_calls = <<>>
        /\ pc = "raised"

\* C13 witness: the handler raised a ValueError while an exception handler
\* is registered for another type, and the ValueError left process.
C13_Witness ==
    /\ HandlerRaised
    /\ outcome.handler_calls[1].did = Raises("ValueError")
    /\ exception_handlers # <<>>
    /\ RoutesFor("ValueError") = {}
    /\ outcome.result = Raises("ValueError")
    /\ outcome.route_calls = <<>>

\* the call of process called a command line handler, and the handler
\* returned a value that is no int
HandlerReturnedNoInt ==
    /\ Called
    /\ Len(outcome.handler_calls) = 1
    /\ outcome.handler_calls[1].did.kind = "return"
    /\ outcome.handler_calls[1].did.value.type # "int"

\* C14: a handler that returns a value that is no int makes process raise to
\* its caller, whatever exception handlers are registered: none of them is
\* called and process returns no exit code.
C14_NoIntNeverRouted ==
    HandlerReturnedNoInt =>
        /\ outcome.route_calls = <<>>
        /\ outcome.result.kind = "raise"

\* C18: a call of process that returns returns an int or None, whatever is
\* registered and whatever the handlers and the exception handlers do.
C18_ReturnsExitCodeOrNone ==
    (Called /\ outcome.result.kind = "return") =>
        outcome.result.value.type \in {"int", "NoneType"}

\* ------------------------------------------------------------------------
\* Argument definitions and the registry
\* ------------------------------------------------------------------------

\* what C15 says of a NamedArgument
WellFormedDefinition(arg_def) ==
    /\ arg_def.min_occurrence <= arg_def.max_occurrence
    /\ arg_def.from_stdin => arg_def.max_occurrence <= 1

\* C15: the constructor of NamedArgument fails when min_occurrence exceeds
\* max_occurrence or when from_stdin is set with a max_occurrence above 1, so
\* every NamedArgument constructed, and every one registered, has
\* min_occurrence <= max_occurrence and, with from_stdin, max_occurrence <= 1.
C15_NamedArgumentWellFormed ==
    /\ construction # NoConstruction =>
           /\ ~WellFormedDefinition(construction) =>
                  construction.result.class = "ValueError" /\ pc = "raised"
           /\ construction.result.class = "NamedArgument" =>
                  WellFormedDefinition(construction.result)
    /\ \A r \in Registrations : \A i \in 1..Len(NamedOf(r)) :
           WellFormedDefinition(NamedOf(r)[i])

\* C15 witness: NamedArgument("k", from_stdin=True, max_occurrence=2) failed
\* after another definition was constructed and registered.
C15_Witness ==
    /\ construction.from_stdin
    /\ construction.min_occurrence = 0
    /\ construction.max_occurrence = 2
    /\ construction.result.class = "ValueError"
    /\ pc = "raised"
    /\ cmdline_handlers # <<>>

\* C16: add_handler fails when two of the named argument definitions passed
\* to it have the same name, ignoring case, so the names of the named
\* argument definitions of a registration of the registry are pairwise
\* distinct, ignoring case.
C16_NamesDistinctInRegistration ==
    \A r \in Registrations : \A i, j \in 1..Len(NamedOf(r)) :
        i # j => Lower(NamedOf(r)[i].name) # Lower(NamedOf(r)[j].name)

\* C17: the registry is append-only: a step that changes it appends one
\* registration and leaves the earlier ones and their order as they are, and
\* a call of add_handler that raises leaves the registry as it is.
C17_RegistryAppendOnly ==
    [][ /\ cmdline_handlers' # cmdline_handlers =>
               /\ Len(cmdline_handlers') = Len(cmdline_handlers) + 1
               /\ SubSeq(cmdline_handlers', 1, Len(cmdline_handlers)) = cmdline_handlers
               /\ pc' = pc
        /\ pc' = "raised" => cmdline_handlers' = cmdline_handlers ]_vars

\* C17 witness: add_handler raised, as it was passed an object that is no
\* argument definition, after a call of it had registered a handler, which
\* is the registry still.
C17_Witness ==
    /\ pc = "raised"
    /\ ~Called
    /\ construction = NoConstruction
    /\ Len(cmdline_handlers) = 1
    /\ cmdline_handlers[1][1] = 1

\* ------------------------------------------------------------------------
\* The application
\* ------------------------------------------------------------------------

\* AppImpl.run was called and reached the loop over the command processors
Ran == app.result.kind # "-" /\ Len(app.argv) >= 2

\* command processor i was called
ProcessorCalled(i) == \E n \in 1..Len(app.calls) : app.calls[n] = i

\* the call of command processor i returned the value code
ProcessorReturned(i, code) == ProcessorCalled(i) /\ app.command_processors[i] = Returns(code)

\* the call of command processor i returned a definite exit code: a value
\* other than None
ReturnedExitCode(i) ==
    /\ ProcessorCalled(i)
    /\ app.command_processors[i].kind = "return"
    /\ app.command_processors[i].value # PyNone

\* the command processors are called in their order, each once at most
CalledInOrder == \A n \in 1..Len(app.calls) : app.calls[n] = n

\* C19 as stated: AppImpl.run calls the command processors in order, and
\* once a processor has returned a value other than None, no later processor
\* is called.
C19_StopsAtFirstExitCode ==
    Ran =>
        /\ CalledInOrder
        /\ \A i, j \in 1..Len(app.command_processors) :
               (ReturnedExitCode(i) /\ i < j) => ~ProcessorCalled(j)

\* C19 as amended: AppImpl.run calls the command processors in order, and
\* once a processor has returned a value other than None and 0, no later
\* processor is called; a processor is called when all before it returned
\* None or 0.
C19_StopsAtFirstNonZeroExitCode ==
    Ran =>
        /\ CalledInOrder
        /\ \A i, j \in 1..Len(app.command_processors) :
               (ReturnedExitCode(i) /\ ~ProcessorReturned(i, PyInt(0)) /\ i < j)
               => ~ProcessorCalled(j)
        /\ \A j \in 1..Len(app.command_processors) :
               (\A i \in 1..j - 1 : ProcessorReturned(i, PyNone) \/ ProcessorReturned(i, PyInt(0)))
               => ProcessorCalled(j)

\* C19 witness: the first processor returned 0, the second one was called
\* and returned 3, and the third one was not called.
C19_Witness ==
    /\ Ran
    /\ Len(app.command_processors) = 3
    /\ app.command_processors[1] = Returns(PyInt(0))
    /\ app.command_processors[2] = Returns(PyInt(3))
    /\ app.calls = <<1, 2>>
    /\ app.result = Returns(PyInt(3))

\* ------------------------------------------------------------------------
\* The state process keeps
\* ------------------------------------------------------------------------

\* the step is a call of process
ProcessStep == pc = "idle" /\ outcome'.result.kind # "-"

\* what the command line handler did in the call o, returning 0 when it was
\* not called
HandlerDid(o) ==
    IF o.handler_calls # <<>> THEN o.handler_calls[1].did ELSE Returns(PyInt(0))

\* what the exception handler did in the call o, returning 7 when it was not
\* called
RouteDid(o) ==
    IF o.route_calls # <<>> THEN o.route_calls[1].did ELSE Returns(PyInt(7))

DefinitionsIgnoringCase(key) ==
    {i \in 1..Len(NamedOf(Selected)) : Lower(NamedOf(Selected)[i].name) = key}

\* C21: the names of named arguments are matched ignoring case on both
\* sides: when every key supplied on the command line is, ignoring case, the
\* name of a named argument definition of the selected registration, also
\* one registered with upper-case letters, no key is reported as not allowed,
\* and a handler that is called receives the values of the key under the
\* name of that definition.
C21_NamesMatchedIgnoringCase ==
    ( /\ HasSelected
      /\ \A key \in SuppliedKeys(args) : DefinitionsIgnoringCase(key) # {} )
    => /\ outcome.errors # <<"not allowed">>
       /\ outcome.handler_calls # <<>> =>
              \A key \in SuppliedKeys(args) : \A i \in DefinitionsIgnoringCase(key) :
                  outcome.handler_calls[1].named[NamedOf(Selected)[i].name]
                      = ValuesOf(args, key)

\* ------------------------------------------------------------------------
\* The tokens the selection reads
\* ------------------------------------------------------------------------

\* the positional names of registration r equal, ignoring case, the first
\* trimmed positional tokens of the invocation
MatchesTrimmed(r, invocation) ==
    /\ Len(PositionalOf(r)) <= Len(PositionalTokens(invocation))
    /\ \A i \in 1..Len(PositionalOf(r)) :
           Lower(PositionalTokens(invocation)[i]) = Lower(PositionalOf(r)[i].name)

\* a positional name of registration r differs, ignoring case, from the raw
\* token of the invocation at its index
DiffersFromRaw(r, invocation) ==
    \E i \in 1..Len(PositionalOf(r)) :
        i <= Len(invocation) /\ Lower(invocation[i]) # Lower(PositionalOf(r)[i].name)

\* C22: the selection compares the positional name at index i of a
\* registration, ignoring case, with the raw token at index i of the
\* invocation, not with the i-th trimmed positional token: a registration one
\* of whose names differs from the raw token at its index is not selected and
\* its handler is not called, also when its names equal the trimmed
\* positional tokens, and the registration selected equals the raw tokens.
C22_MatchedAgainstRawTokens ==
    (Called /\ WellFormed(args)) =>
        /\ \A r \in Registrations :
               DiffersFromRaw(r, args) => Selected # r /\ ~Invoked(r)
        /\ Selected \in Registrations =>
               \A i \in 1..Len(PositionalOf(Selected)) :
                   Lower(args[i]) = Lower(PositionalOf(Selected)[i].name)

\* C22 witness: a named token stands before the command word, the only
\* registration is named after the command word and allows that named
\* argument, and process returned None.
C22_Witness ==
    /\ Called
    /\ Len(args) = 2
    /\ IsNamedToken(args[1])
    /\ WellFormed(args)
    /\ Len(cmdline_handlers) = 1
    /\ Len(PositionalOf(1)) = 1
    /\ MatchesTrimmed(1, args)
    /\ DiffersFromRaw(1, args)
    /\ \E i \in 1..Len(NamedOf(1)) : NamedOf(1)[i].name \in SuppliedKeys(args)
    /\ outcome.result = Returns(PyNone)
    /\ outcome.handler_calls = <<>>

\* ------------------------------------------------------------------------
\* The standard input
\* ------------------------------------------------------------------------

\* definition i of the selected registration is required, read from stdin
\* as well and absent from the command line
RequiredFromStdin(i) ==
    /\ NamedOf(Selected)[i].from_stdin
    /\ NamedOf(Selected)[i].min_occurrence >= 1
    /\ NamedOf(Selected)[i].name \notin SuppliedKeys(args)

\* C23 as stated: a terminal as stdin leaves a named argument unspecified,
\* so a named argument read from stdin as well, with min_occurrence >= 1,
\* that is absent from the command line while stdin is a terminal makes
\* process return exit code 2, and the handler is not called with an empty
\* list of values for it.
C23_TerminalLeavesUnspecified ==
    (HasSelected /\ stdin.tty) =>
        \A i \in 1..Len(NamedOf(Selected)) :
            RequiredFromStdin(i)
            => /\ ArgumentError
               /\ \A n \in 1..Len(outcome.handler_calls) :
                      outcome.handler_calls[n].named[NamedOf(Selected)[i].name] # <<>>

\* C23 as amended: a named argument counts as specified when it is supplied
\* on the command line, when a line is read for it from stdin, or when it is
\* read from stdin as well and stdin is a terminal. With a terminal as
\* stdin, process reports that an argument must be specified only for a
\* required argument absent from the command line that is not read from
\* stdin as well, and a handler that is called receives the empty list for
\* every argument read from stdin as well that is absent from the command
\* line; without a terminal, a required argument absent from the command line
\* for which no line is read makes process return exit code 2.
C23_TerminalCountsAsSpecified ==
    HasSelected =>
        /\ (stdin.tty /\ outcome.errors = <<"must be specified">>) =>
               \E i \in 1..Len(NamedOf(Selected)) :
                   /\ NamedOf(Selected)[i].min_occurrence >= 1
                   /\ NamedOf(Selected)[i].name \notin SuppliedKeys(args)
                   /\ ~ReadsStdin(NamedOf(Selected)[i])
        /\ (stdin.tty /\ outcome.handler_calls # <<>>) =>
               \A i \in 1..Len(NamedOf(Selected)) :
                   ( /\ NamedOf(Selected)[i].from_stdin
                     /\ NamedOf(Selected)[i].name \notin SuppliedKeys(args) )
                   => outcome.handler_calls[1].named[NamedOf(Selected)[i].name] = <<>>
        /\ ~stdin.tty =>
               \A i \in 1..Len(NamedOf(Selected)) :
                   (RequiredFromStdin(i) /\ LinesReadFor(i) = {}) => ArgumentError

\* C23 witness: stdin is a terminal, a required argument read from stdin as
\* well is absent from the command line, and the handler was called with the
\* empty list for it.
C23_Witness ==
    /\ HasSelected
    /\ stdin.tty
    /\ \E i \in 1..Len(NamedOf(Selected)) :
           /\ RequiredFromStdin(i)
           /\ Len(outcome.handler_calls) = 1
           /\ outcome.handler_calls[1].named[NamedOf(Selected)[i].name] = <<>>
    /\ outcome.errors = <<>>
    /\ outcome.result.kind = "return"

\* the errors of the tokenizing and of the check of the specified named
\* arguments
EarlyErrors == {"invalid format", "not allowed", "required at least", "allowed at maximum"}

\* C24: a call of process reads stdin for the named arguments of the
\* selected registration that are read from stdin as well and have
\* max_occurrence 1 only, once for each at most and in the order of the
\* definitions; the lines it takes are the first lines of stdin, one for each
\* read that yields a line; it takes no line when stdin is a terminal, when
\* it returns None for want of a matching registration, and when it fails in
\* the tokenizing or in the check of the specified named arguments.
C24_StdinReadsBounded ==
    [][ ProcessStep =>
            LET reads == outcome'.reads
                defs  == IF outcome'.best_fit_index = 0 THEN <<>>
                         ELSE cmdline_handlers[outcome'.best_fit_index][3]
                taken == {n \in 1..Len(reads) : reads[n].some}
            IN  /\ \A n \in 1..Len(reads) :
                       /\ reads[n].arg_def \in 1..Len(defs)
                       /\ defs[reads[n].arg_def].from_stdin
                       /\ defs[reads[n].arg_def].max_occurrence = 1
                       /\ \A m \in 1..Len(reads) :
                              m < n => reads[m].arg_def < reads[n].arg_def
                /\ \A n \in taken :
                       /\ \A m \in 1..n : m \in taken
                       /\ n <= Len(stdin.lines)
                       /\ reads[n].line = RStrip(stdin.lines[n])
                /\ stdin'.tty = stdin.tty
                /\ stdin'.lines = SubSeq(stdin.lines, Cardinality(taken) + 1, Len(stdin.lines))
                /\ ( \/ stdin.tty
                     \/ outcome'.best_fit_index = 0
                     \/ \E n \in 1..Len(outcome'.errors) : outcome'.errors[n] \in EarlyErrors )
                   => taken = {} /\ stdin' = stdin ]_vars

\* C24 witness: the selected registration has two arguments read from stdin
\* as well, stdin held two lines, and a line was read for the first one and
\* then a line for the second one, which left stdin empty.
C24_Witness ==
    /\ HasSelected
    /\ ~stdin.tty
    /\ stdin.lines = <<>>
    /\ Len(outcome.reads) = 2
    /\ outcome.reads[1].some /\ outcome.reads[2].some
    /\ outcome.reads[1].arg_def = 1 /\ outcome.reads[2].arg_def = 2
    /\ outcome.reads[1].line # outcome.reads[2].line

\* ------------------------------------------------------------------------
\* The argument errors
\* ------------------------------------------------------------------------

\* a key supplied on the command line is not the name of a named argument
\* definition of the selected registration
UndeclaredKey ==
    HasSelected /\ \E key \in SuppliedKeys(args) : DefinitionsOf(key) = {}

\* a key was supplied fewer times than the min_occurrence or more times than
\* the max_occurrence of its definition
OccurrenceViolation ==
    /\ HasSelected
    /\ \E key \in SuppliedKeys(args) :
           /\ DefinitionsOf(key) # {}
           /\ \/ Len(ValuesOf(args, key)) < DefinitionOf(key).min_occurrence
              \/ Len(ValuesOf(args, key)) > DefinitionOf(key).max_occurrence

\* a required named argument is absent from the command line, and neither
\* was a line read for it nor is it read from a terminal
MissingRequired ==
    /\ HasSelected
    /\ \E i \in 1..Len(NamedOf(Selected)) :
           /\ NamedOf(Selected)[i].min_occurrence >= 1
           /\ NamedOf(Selected)[i].name \notin SuppliedKeys(args)
           /\ ~(ReadsStdin(NamedOf(Selected)[i]) /\ (stdin.tty \/ LinesReadFor(i) # {}))

\* C25: argument errors are final and are not passed to the exception
\* handlers: on a malformed named token, an undeclared named argument, a
\* violated number of occurrences or a missing required named argument,
\* process returns exit code 2 and calls neither the selected handler nor an
\* exception handler, also when one is registered for the
\* CommandLineArgumentError; no call of process calls more than one handler.
C25_ArgumentErrorsNeverRouted ==
    Called =>
        /\ (~WellFormed(args) \/ UndeclaredKey \/ OccurrenceViolation \/ MissingRequired)
           => /\ outcome.result = Returns(PyInt(EXIT_CODE_COMMAND_LINE_ARGUMENT_ERROR))
              /\ outcome.handler_calls = <<>>
              /\ outcome.route_calls = <<>>
        /\ Len(outcome.handler_calls) <= 1

\* C25 witness: an exception handler is registered for the
\* CommandLineArgumentError, the key of an argument allowed once was
\* supplied twice, and process returned 2 without calling a handler or an
\* exception handler.
C25_Witness ==
    /\ Called
    /\ RoutesFor("CommandLineArgumentError") # {}
    /\ OccurrenceViolation
    /\ ~UndeclaredKey
    /\ outcome.errors = <<"allowed at maximum">>
    /\ outcome.result = Returns(PyInt(EXIT_CODE_COMMAND_LINE_ARGUMENT_ERROR))
    /\ outcome.handler_calls = <<>>
    /\ outcome.route_calls = <<>>

\* ------------------------------------------------------------------------
\* The named arguments the handler receives
\* ------------------------------------------------------------------------

\* the names of the named argument definitions of the selected registration
SelectedNames == {NamedOf(Selected)[i].name : i \in 1..Len(NamedOf(Selected))}

\* C26: the named arguments a handler is called with have one entry for
\* each named argument definition of the selected registration, under the
\* name of the definition, and no entry under another key; the entry of a
\* definition that was neither supplied on the command line nor read from
\* stdin is the empty list.
C26_EntryForEveryDefinition ==
    (HasSelected /\ outcome.handler_calls # <<>>) =>
        LET named == outcome.handler_calls[1].named IN
        /\ DOMAIN named = SelectedNames
        /\ \A i \in 1..Len(NamedOf(Selected)) :
               ( /\ Lower(NamedOf(Selected)[i].name) \notin SuppliedKeys(args)
                 /\ LinesReadFor(i) = {} )
               => named[NamedOf(Selected)[i].name] = <<>>

\* ------------------------------------------------------------------------
\* The selection of a handler, at its edges
\* ------------------------------------------------------------------------

\* registration r is examined: it needs no more positional arguments than
\* positional tokens were supplied
Examined(r, invocation) ==
    Len(PositionalOf(r)) <= Len(PositionalTokens(invocation))

\* C27: the selection never reads a token past the end of the invocation:
\* for every registry and every invocation, every index at which a raw token
\* is read while a registration is examined is an index of the invocation,
\* so no IndexError leaves process.
C27_NoReadPastTheEnd ==
    Called =>
        /\ outcome.result # Raises("IndexError")
        /\ \A r \in Registrations :
               Examined(r, args) =>
                   /\ Len(PositionalOf(r)) <= Len(args)
                   /\ MatchCount(args, PositionalOf(r), 0) # -1

\* C27 witness: a registration with as many positional arguments as the
\* invocation has tokens was examined, matched up to the last token and
\* called, next to a registration that needs more tokens than supplied.
C27_Witness ==
    /\ Called
    /\ Len(args) >= 1
    /\ \E r, q \in Registrations :
           /\ Len(PositionalOf(r)) = Len(args)
           /\ FullyMatches(r, args)
           /\ Invoked(r)
           /\ Len(PositionalOf(q)) > Len(args)

\* the registrations without positional arguments
CatchAll == {r \in Registrations : PositionalOf(r) = <<>>}

ReturnedNonZero(i) == ReturnedExitCode(i) /\ ~ProcessorReturned(i, PyInt(0))

\* the call of command processor i returned 0 or None
ReturnedZeroOrNone(i) == ProcessorReturned(i, PyInt(0)) \/ ProcessorReturned(i, PyNone)

Processors == 1..Len(app.command_processors)

\* C29: AppImpl.run calls the command processors in the order of the list;
\* the first one that returns an exit code other than 0 is the last one
\* called, and run returns that code; after a processor that returns 0 or
\* None the next one is called; when no processor returns an exit code
\* other than 0 and one at least returns 0, run returns 0.
C29_RunReturnsFirstNonZero ==
    Ran =>
        /\ CalledInOrder
        /\ \A i \in Processors :
               ReturnedNonZero(i) =>
                   /\ Len(app.calls) = i
                   /\ app.result = app.command_processors[i]
        /\ \A i \in Processors :
               (ReturnedZeroOrNone(i) /\ i + 1 \in Processors) => ProcessorCalled(i + 1)
        /\ ( /\ app.result.kind = "return"
             /\ \A i \in Processors : ~ReturnedNonZero(i)
             /\ \E i \in Processors : ProcessorReturned(i, PyInt(0)) )
           => app.result = Returns(PyInt(0))

\* C29 witness: for a command that is not run, the first processor returned
\* None, the second one 0 and the third one None: all three were called and
\* run returned 0.
C29_Witness ==
    /\ Ran
    /\ ~IsRunCommand(app.argv)
    /\ app.command_processors = <<Returns(PyNone), Returns(PyInt(0)), Returns(PyNone)>>
    /\ app.calls = <<1, 2, 3>>
    /\ app.result = Returns(PyInt(0))

\* every command processor returned None
NoneHandled ==
    \A i \in Processors : app.command_processors[i] = Returns(PyNone)

\* the first argument is run or run-and-enter, ignoring case
FirstArgumentIsRun == Lower(app.argv[2]) \in {s_run, s_run_and_enter}

\* C30: when every command processor returns None for a command line with
\* one argument at least, AppImpl.run returns 0 if the first argument is run
\* or run-and-enter, ignoring case, and 127 otherwise; a call of run never
\* returns None.
C30_ExitCodeWhenNotHandled ==
    /\ (Ran /\ NoneHandled) =>
           app.result = IF FirstArgumentIsRun THEN Returns(PyInt(0)) ELSE Returns(PyInt(127))
    /\ app.result # Returns(PyNone)

\* C30 witness: for the first argument Run-And-Enter two command processors
\* were called, both returned None, run returned 0 and the program exited.
C30_Witness ==
    /\ Ran
    /\ pc = "exited"
    /\ app.argv[2] # Lower(app.argv[2])
    /\ Lower(app.argv[2]) = s_run_and_enter
    /\ Len(app.command_processors) = 2
    /\ NoneHandled
    /\ app.calls = <<1, 2>>
    /\ app.result = Returns(PyInt(0))

====
